---- MODULE Spec2Model ----
(***************************************************************************)
(* State-machine model of the BVH build pipeline of src/script.js:         *)
(* buildLBVH (binned SAH builder with median fallback, explicit call       *)
(* stack for the recursion), flattenForSSBO (serialisation of the tree and *)
(* of the reordered triangles).                                            *)
(*                                                                         *)
(* Arrays keep the 0-based indexing of the source: a JavaScript array a is *)
(* a TLA+ sequence and a[i] is At(a, i).                                   *)
(*                                                                         *)
(* Numbers.  The meshes of the model have integer vertex coordinates whose *)
(* per-axis sum over the three corners of every triangle is a multiple of  *)
(* 3, so every value the builder stores in a Float32Array (triMin, triMax, *)
(* centroids) is a small integer and is stored exactly.  The quotients the *)
(* builder forms (bin index, split plane, SAH cost) are kept as exact      *)
(* fractions over a common positive denominator.                           *)
(***************************************************************************)
EXTENDS Integers, Sequences, FiniteSets, TLC

(* ---------------------------- bounds ----------------------------------- *)
\* largest number of triangles of a mesh
MaxTris == 3
\* largest leaf capacity passed to buildLBVH
MaxLeaf == 2
\* deepest call stack of recurse() the model follows
MaxDepth == 6
\* number of calls of flattenForSSBO the re-flattening runs make
MaxFlattens == 2
\* largest number of 4-float records of an array handed to splitHalf alone
MaxRecs == 3
\* largest number of triangles of the mesh the page loads
MaxPageTris == 2
\* largest number of camera steps the render loop is followed for
MaxMove == 1
\* largest value of frameCount before the FPS counter is refreshed
MaxFrames == 2

(* ------------------------- program constants --------------------------- *)
BINS == 16
Infinity == 1000000

(* --------------------------- array helpers ----------------------------- *)
At(a, i) == a[i + 1]
Put(a, i, v) == [a EXCEPT ![i + 1] = v]

MinOf(S) == IF S = {} THEN Infinity ELSE CHOOSE x \in S : \A y \in S : x <= y
MaxOf(S) == IF S = {} THEN -Infinity ELSE CHOOSE x \in S : \A y \in S : x >= y

\* a function over 1..n as the array (tuple) of its values
Arr(f) == f \o <<>>

RECURSIVE SumTo(_, _, _)
SumTo(f, lo, hi) == IF lo > hi THEN 0 ELSE At(f, lo) + SumTo(f, lo + 1, hi)

\* Math.fround on integers: identity up to 2^24, round-to-nearest-even above
RECURSIVE FroundStep(_, _)
FroundStep(x, unit) ==
  IF x < 16777216 * unit
  THEN LET q == x \div unit
           r == x % unit
       IN IF 2 * r > unit \/ (2 * r = unit /\ q % 2 = 1)
          THEN (q + 1) * unit ELSE q * unit
  ELSE FroundStep(x, 2 * unit)
Fround(x) ==
  IF x >= Infinity THEN Infinity
  ELSE IF x <= -Infinity THEN -Infinity
  ELSE IF x < 0 THEN -FroundStep(-x, 1) ELSE FroundStep(x, 1)

(* ------------------------------ meshes --------------------------------- *)
\* vertex pool: 14 vertices, flat xyz as in mesh.positions
Positions ==
  << 0, 0, 0,    3, 0, 0,    0, 3, 0,
     15, 15, 0,  18, 15, 0,  15, 18, 0,
     1, 1, 0,    0, 0, 6,    0, 3, 3,
     18, 0, 0,   0, 18, 6,   4, 1, 0,
     49, 0, 0,   98, 30, 0 >>
\* normal pool: 3 normals, flat xyz as in mesh.normals
Normals == << 0, 0, 1,   1, 0, 0,   0, 1, 0 >>

\* the faces a mesh is made of: vertex index triple and normal index triple
Faces ==
  { [v |-> <<0, 1, 2>>,    n |-> <<0, 1, 2>>],
    [v |-> <<3, 4, 5>>,    n |-> <<2, 0, 1>>],
    [v |-> <<6, 6, 6>>,    n |-> <<1, 1, 1>>],
    [v |-> <<0, 7, 8>>,    n |-> <<1, 2, 0>>],
    [v |-> <<0, 9, 10>>,   n |-> <<2, 1, 0>>],
    [v |-> <<11, 11, 11>>, n |-> <<0, 0, 2>> ] }

RECURSIVE FlatV(_)
FlatV(fs) == IF fs = <<>> THEN <<>> ELSE Head(fs).v \o FlatV(Tail(fs))
RECURSIVE FlatN(_)
FlatN(fs) == IF fs = <<>> THEN <<>> ELSE Head(fs).n \o FlatN(Tail(fs))

\* the mesh object loadObj returns for a face list
MeshOf(fs) ==
  [ positions |-> Positions, normals |-> Normals,
    vertIdx |-> FlatV(fs), normIdx |-> FlatN(fs) ]

Meshes == { MeshOf(fs) : fs \in UNION { [1..n -> Faces] : n \in 1..MaxTris } }

\* faces whose centroids 0, 49, 98 along x sit on a bucket boundary that
\* the division by the extent does not hit exactly
RoundingFaces ==
  { [v |-> <<0, 0, 0>>,    n |-> <<0, 0, 0>>],
    [v |-> <<12, 12, 12>>, n |-> <<1, 1, 1>>],
    [v |-> <<13, 13, 13>>, n |-> <<2, 2, 2>>] }
RoundingMeshes ==
  { MeshOf(fs) : fs \in UNION { [1..n -> RoundingFaces] : n \in 1..MaxTris } }

VARIABLES mesh, leaf, phase, triMin, triMax, centroids, triOrder, nodes, stack,
          flat, flatCalls,
          chunks, bufs, code, pipeline, bindGroup,
          keys, yaw, listening, scale, cameraPos, frameCount,
          arr, halves, codes,
          pitch, frameIndex, prevCameraPos, prevYaw, prevPitch, pingTex, pongTex,
          uniforms, accumDraw

\* the outputs of the packing and upload steps of the page
packVars == <<chunks, bufs, code, pipeline, bindGroup>>
\* the camera and transform variables and the frame counter of the page
inputVars == <<keys, yaw, listening, scale, cameraPos, frameCount>>
\* argument and result of a call of splitHalf on its own
splitVars == <<arr, halves>>
\* the Morton codes of the triangles, in mesh order
mortonVars == <<codes>>
\* the state of the temporal-accumulation ray tracer that the page does not
\* have: pitch, the accumulation counter, the previous camera, the two roles
\* of the accumulation textures, the uniforms u_frameIndex and u_maxFrames
\* of the program, and the accumulation draw call of the last frame
temporalVars == <<pitch, frameIndex, prevCameraPos, prevYaw, prevPitch, pingTex, pongTex,
                  uniforms, accumDraw>>
hostVars == <<packVars, inputVars, splitVars, mortonVars, temporalVars>>

vars == <<mesh, leaf, phase, triMin, triMax, centroids, triOrder, nodes, stack,
          flat, flatCalls, hostVars>>

tris == Len(mesh.vertIdx) \div 3

(* ------------------- 1) per-triangle AABB and centroid ----------------- *)
\* coordinate k of corner v of triangle t of mesh m
Corner(m, t, v, k) == At(m.positions, 3 * At(m.vertIdx, 3 * t + v) + k)

\* the Float32Arrays of step 1, tris * 3 entries each
TriMinOf(m) ==
  Arr([e \in 1..Len(m.vertIdx) |->
        LET t == (e - 1) \div 3
            k == (e - 1) % 3
        IN Fround(MinOf({Corner(m, t, 0, k), Corner(m, t, 1, k), Corner(m, t, 2, k)}))])
TriMaxOf(m) ==
  Arr([e \in 1..Len(m.vertIdx) |->
        LET t == (e - 1) \div 3
            k == (e - 1) % 3
        IN Fround(MaxOf({Corner(m, t, 0, k), Corner(m, t, 1, k), Corner(m, t, 2, k)}))])
\* variant of CentroidsOf: the first corner instead of the mean of the three
CentroidsOfFirstCorner(m) ==
  Arr([e \in 1..Len(m.vertIdx) |->
        LET t == (e - 1) \div 3
            k == (e - 1) % 3
        IN Fround(Corner(m, t, 0, k))])

CentroidsOf(m) ==
  Arr([e \in 1..Len(m.vertIdx) |->
        LET t == (e - 1) \div 3
            k == (e - 1) % 3
        IN Fround((Corner(m, t, 0, k) + Corner(m, t, 1, k) + Corner(m, t, 2, k)) \div 3)])

\* variant of BoundsMn: the bounds of the centroids instead of the AABBs
BoundsMnCentroid(order, start, end) ==
  Arr([a \in 1..3 |->
        MinOf({At(centroids, 3 * At(order, i) + a - 1) : i \in start..(end - 1)})])
\* variant of BoundsMx: the loop stops one triangle early (i < end - 1)
BoundsMxShort(order, start, end) ==
  Arr([a \in 1..3 |->
        MaxOf({At(triMax, 3 * At(order, i) + a - 1) : i \in start..(end - 2)})])

\* union of the triangle AABBs of order[start .. end)
BoundsMn(order, start, end) ==
  Arr([a \in 1..3 |->
        MinOf({At(triMin, 3 * At(order, i) + a - 1) : i \in start..(end - 1)})])
BoundsMx(order, start, end) ==
  Arr([a \in 1..3 |->
        MaxOf({At(triMax, 3 * At(order, i) + a - 1) : i \in start..(end - 1)})])

(* ------------------- 3) recurse(): choice of the split ------------------ *)
\* centroid bounds of order[start .. end)
CentMn(order, start, end) ==
  Arr([a \in 1..3 |->
        MinOf({At(centroids, 3 * At(order, i) + a - 1) : i \in start..(end - 1)})])
CentMx(order, start, end) ==
  Arr([a \in 1..3 |->
        MaxOf({At(centroids, 3 * At(order, i) + a - 1) : i \in start..(end - 1)})])

\* split axis from the centroid extents ext[0..2]
ChooseAxis(ext) ==
  IF At(ext, 0) > At(ext, 1)
  THEN (IF At(ext, 0) > At(ext, 2) THEN 0 ELSE 2)
  ELSE (IF At(ext, 1) > At(ext, 2) THEN 1 ELSE 2)

RECURSIVE Pow2(_)
Pow2(n) == IF n = 0 THEN 1 ELSE 2 * Pow2(n - 1)
\* floor(log2(x)) for x >= 1
RECURSIVE Log2(_)
Log2(x) == IF x < 2 THEN 0 ELSE 1 + Log2(x \div 2)
\* 2^n mod e, by repeated squaring
RECURSIVE Pow2Mod(_, _)
Pow2Mod(n, e) ==
  IF n = 0 THEN 1 % e
  ELSE IF n % 2 = 1 THEN (2 * Pow2Mod(n - 1, e)) % e
  ELSE (Pow2Mod(n \div 2, e) * Pow2Mod(n \div 2, e)) % e

\* Math.floor(((d * invExt) * BINS)) for integers 0 <= d <= e, e > 0, with
\* invExt = 1.0 / e and the product both rounded to double precision.  The
\* result is floor(BINS * d / e) unless BINS * d / e is an integer m and the
\* rounded product falls below m / BINS: invExt = N / 2^s with s = j + 53,
\* j = floor(log2(e)), N = round(2^s / e); r = 2^s mod e tells which way N
\* was rounded and by how much; the product d * N / 2^s lies below m / BINS
\* by (m / BINS) * r / 2^s and is rounded down when that exceeds half the
\* gap between m / BINS and the double below it.
FloorBin(d, e) ==
  LET m == (BINS * d) \div e
      j == Log2(e)
      r == Pow2Mod(j + 53, e)
      pm == Pow2(Log2(m))
  IN IF (BINS * d) % e # 0 \/ m = 0 THEN m
     ELSE IF Pow2(j) = e THEN m
     ELSE IF 2 * r > e THEN m
     ELSE IF (IF m = pm THEN 2 ELSE 1) * m * r > pm * Pow2(j) THEN m - 1
     ELSE m

\* bucket of a centroid coordinate c: floor((c - cmn) * invExt * BINS), clamped;
\* invExt is 1/e for e > 0 and 0 otherwise.  At c - cmn = e the product is 16
\* or just below it, and the clamp makes both BINS - 1.
BinOf(c, cmn, e) ==
  IF e <= 0 \/ c <= cmn THEN 0
  ELSE IF c - cmn >= e THEN BINS - 1
  ELSE FloorBin(c - cmn, e)

\* the binning pass over order[start .. end) with centroid bounds cMn, cMx:
\* extents, axis, and per bucket the count and the bounds of the centroids
\* that fell into it
Binning(order, start, end, cMn, cMx) ==
  LET ext == <<cMx[1] - cMn[1], cMx[2] - cMn[2], cMx[3] - cMn[3]>>
      axis == ChooseAxis(ext)
      binOfTri(t) ==
        BinOf(At(centroids, 3 * t + axis), At(cMn, axis), At(ext, axis))
      inBin(b) == {i \in start..(end - 1) : binOfTri(At(order, i)) = b}
  IN [ axis |-> axis, cMn |-> cMn, ext |-> ext,
       binCount |-> Arr([b \in 1..BINS |-> Cardinality(inBin(b - 1))]),
       binMin |-> Arr([b \in 1..BINS |-> Arr([a \in 1..3 |->
          MinOf({At(centroids, 3 * At(order, i) + a - 1) : i \in inBin(b - 1)})])]),
       binMax |-> Arr([b \in 1..BINS |-> Arr([a \in 1..3 |->
          MaxOf({At(centroids, 3 * At(order, i) + a - 1) : i \in inBin(b - 1)})])]) ]

\* the prefix and suffix passes over the buckets of a binning bn: entry i of
\* the left arrays covers buckets 0..i, entry i of the right arrays i..BINS-1
PrefixSuffix(bn) ==
  [ leftCount |-> Arr([i \in 1..BINS |-> SumTo(bn.binCount, 0, i - 1)]),
    leftMin3 |-> Arr([i \in 1..BINS |-> Arr([a \in 1..3 |->
                   MinOf({At(bn.binMin, b)[a] : b \in 0..(i - 1)})])]),
    leftMax3 |-> Arr([i \in 1..BINS |-> Arr([a \in 1..3 |->
                   MaxOf({At(bn.binMax, b)[a] : b \in 0..(i - 1)})])]),
    rightCount |-> Arr([i \in 1..BINS |-> SumTo(bn.binCount, i - 1, BINS - 1)]),
    rightMin3 |-> Arr([i \in 1..BINS |-> Arr([a \in 1..3 |->
                   MinOf({At(bn.binMin, b)[a] : b \in (i - 1)..(BINS - 1)})])]),
    rightMax3 |-> Arr([i \in 1..BINS |-> Arr([a \in 1..3 |->
                   MaxOf({At(bn.binMax, b)[a] : b \in (i - 1)..(BINS - 1)})])]) ]

\* 2 * (dx*dy + dy*dz + dz*dx) of the box mn..mx
SurfaceArea(mn, mx) ==
  LET d == <<mx[1] - mn[1], mx[2] - mn[2], mx[3] - mn[3]>>
  IN 2 * (d[1] * d[2] + d[2] * d[3] + d[3] * d[1])

\* cost of the boundary after bucket i, as the fraction num / PS; with PS = 0
\* the quotients are Infinity or NaN and the cost is not a finite number
Cost(ps, i, PS) ==
  LET sL == SurfaceArea(At(ps.leftMin3, i), At(ps.leftMax3, i))
      sR == SurfaceArea(At(ps.rightMin3, i + 1), At(ps.rightMax3, i + 1))
  IN [ fin |-> PS > 0,
       num |-> sL * At(ps.leftCount, i) + sR * At(ps.rightCount, i + 1) ]

\* cost < bestCost, bestCost being Infinity (fin = FALSE) or a finite cost
CostLess(cost, bestCost) ==
  cost.fin /\ (~bestCost.fin \/ cost.num < bestCost.num)

\* the best-split loop over the BINS-1 boundaries; -1 when none is taken
BestBin(ps, PS) ==
  LET RECURSIVE loop(_, _, _)
      loop(i, bestCost, bestBin) ==
        IF i >= BINS - 1 THEN bestBin
        ELSE IF At(ps.leftCount, i) = 0 \/ At(ps.rightCount, i + 1) = 0
             THEN loop(i + 1, bestCost, bestBin)
             ELSE IF CostLess(Cost(ps, i, PS), bestCost)
                  THEN loop(i + 1, Cost(ps, i, PS), i)
                  ELSE loop(i + 1, bestCost, bestBin)
  IN loop(0, [fin |-> FALSE, num |-> 0], -1)

\* variant of LeafTest: the comparison is off by one
LeafTestLoose(count, cap) == count <= cap + 1

\* if (count <= leaf): the range becomes a leaf
LeafTest(count, cap) == count <= cap

\* variant of LeafNode: the count is stored without the sign
LeafNodeUnsigned(mn, mx, start, count) ==
  [mn |-> mn, mx |-> mx, left |-> start, right |-> count]

\* { mn, mx, left: start, right: -count }
LeafNode(mn, mx, start, count) ==
  [mn |-> mn, mx |-> mx, left |-> start, right |-> -count]

\* variant of InnerNode: the two indices are exchanged
InnerNodeSwapped(mn, mx, l, r) == [mn |-> mn, mx |-> mx, left |-> r, right |-> l]

\* variant of InnerNode: the left index is stored in both fields
InnerNodeSameChild(mn, mx, l, r) == [mn |-> mn, mx |-> mx, left |-> l, right |-> l]

\* { mn, mx, left: l, right: r }
InnerNode(mn, mx, l, r) == [mn |-> mn, mx |-> mx, left |-> l, right |-> r]

\* variant of Swap: triOrder[i] = triOrder[j]; triOrder[j] = triOrder[i]
SwapLossy(order, i, j) == Put(order, i, At(order, j))

\* [triOrder[i], triOrder[j]] = [triOrder[j], triOrder[i]]
Swap(order, i, j) == Put(Put(order, i, At(order, j)), j, At(order, i))

\* variant of MedianMid: the half is rounded up, (count + 1) >> 1
MedianMidCeil(start, count) == start + ((count + 1) \div 2)

\* variant of MedianMid: count >> 2
MedianMidQuarter(start, count) == start + (count \div 4)

\* count >> 1
MedianMid(start, count) == start + (count \div 2)

\* 16 * splitPos, splitPos = cMn[axis] + ((bestBin+1)/BINS) * ext[axis]
SplitPos16(bn, bestBin) ==
  BINS * At(bn.cMn, bn.axis) + (bestBin + 1) * At(bn.ext, bn.axis)

\* centroids[3*t + axis] < splitPos
LeftOfPlane(t, axis, splitPos16) == BINS * At(centroids, 3 * t + axis) < splitPos16

(* --------------------------- the call stack ---------------------------- *)
\* nodes.push(null)
Null == [null |-> TRUE]

Top == stack[Len(stack)]

\* a call of recurse(start, end) is about to be made: the root call of
\* buildLBVH, or the left or right recursive call of the frame on top
CallPending ==
  /\ phase = "build"
  /\ Len(stack) < MaxDepth
  /\ stack # <<>> => Top.pc \in {"left", "right"}
CallStart ==
  IF stack = <<>> THEN 0 ELSE IF Top.pc = "left" THEN Top.start ELSE Top.mid
CallEnd ==
  IF stack = <<>> THEN tris ELSE IF Top.pc = "left" THEN Top.mid ELSE Top.end

\* the callers' frames after the pending or finished call returned idx
Returned(stk, idx) ==
  IF stk = <<>> THEN stk
  ELSE LET f == stk[Len(stk)]
       IN IF f.pc = "left"
          THEN [stk EXCEPT ![Len(stk)] = [f EXCEPT !.l = idx, !.pc = "right"]]
          ELSE [stk EXCEPT ![Len(stk)] = [f EXCEPT !.r = idx, !.pc = "join"]]

\* the locals of an activation of recurse that has finished the binning
\* pass (bn) and the prefix and suffix passes (ps) and is about to look for
\* the best split
Frame(nodeIdx, start, end, mn, mx, bn, ps) ==
  [ nodeIdx |-> nodeIdx, start |-> start, end |-> end, mn |-> mn, mx |-> mx,
    bn |-> bn, ps |-> ps, pc |-> "choose", splitPos16 |-> 0, i |-> 0, j |-> 0,
    mid |-> -1, l |-> -1, r |-> -1 ]

\* before splitHalf and makeBuf have run
NoChunks == [p0 |-> <<>>, p1 |-> <<>>, n0 |-> <<>>, n1 |-> <<>>, b0 |-> <<>>, b1 |-> <<>>]
NoBufs == [pos0Buf |-> Null, pos1Buf |-> Null, nor0Buf |-> Null, nor1Buf |-> Null,
           bvh0Buf |-> Null, bvh1Buf |-> Null, uniformBuf |-> Null]

(* ------------------------------ actions -------------------------------- *)
\* the state before buildLBVH is called, the mesh apart
\* the two accumulation textures of raytracer_temporal.js
texA == "texA"
texB == "texB"

\* raytracer_temporal.js before its first frame: pitch = 0, frameIndex = 0,
\* the previous camera a copy of the camera, pingTex = texA, pongTex = texB,
\* no uniform set and no draw call issued
InitTemporalVars ==
  /\ pitch = 0
  /\ frameIndex = 0
  /\ prevCameraPos = 0
  /\ prevYaw = 0
  /\ prevPitch = 0
  /\ pingTex = texA
  /\ pongTex = texB
  /\ uniforms = Null
  /\ accumDraw = Null

InitRest ==
  /\ leaf \in 1..MaxLeaf
  /\ phase = "loaded"
  /\ triMin = <<>>
  /\ triMax = <<>>
  /\ centroids = <<>>
  /\ triOrder = <<>>
  /\ nodes = <<>>
  /\ stack = <<>>
  /\ flat = [triPos |-> <<>>, triNor |-> <<>>, bvhData |-> <<>>]
  /\ flatCalls = 0
  /\ chunks = NoChunks
  /\ bufs = NoBufs
  /\ code = <<>>
  /\ pipeline = Null
  /\ bindGroup = Null
  /\ keys = <<>>
  /\ yaw = 0
  /\ listening = FALSE
  /\ scale = <<1, 1, 1>>
  /\ cameraPos = 0
  /\ frameCount = 0
  /\ arr = <<>>
  /\ halves = <<>>
  /\ codes = <<>>
  /\ InitTemporalVars

Init ==
  /\ mesh \in Meshes
  /\ InitRest

\* buildLBVH on a mesh whose centroids sit on rounded bucket boundaries
InitRounding ==
  /\ mesh \in RoundingMeshes
  /\ InitRest

\* buildLBVH, steps 1 and 2: identity triOrder, empty node array
buildInit ==
  /\ phase = "loaded"
  /\ triMin' = TriMinOf(mesh)
  /\ triMax' = TriMaxOf(mesh)
  /\ centroids' = CentroidsOf(mesh)
  /\ triOrder' = [i \in 1..tris |-> i - 1]
  /\ nodes' = <<>>
  /\ phase' = "build"
  /\ UNCHANGED <<mesh, leaf, stack, flat, flatCalls>>
  /\ UNCHANGED hostVars

\* recurse(start, end) with count <= leaf: emits a leaf and returns
recurseLeaf ==
  /\ CallPending
  /\ LET start == CallStart
         end == CallEnd
         count == end - start
     IN /\ LeafTest(count, leaf)
        /\ nodes' = Append(nodes, LeafNode(BoundsMn(triOrder, start, end),
                                           BoundsMx(triOrder, start, end),
                                           start, count))
        /\ stack' = Returned(stack, Len(nodes))
        /\ phase' = IF stack = <<>> THEN "built" ELSE phase
  /\ UNCHANGED <<mesh, leaf, triMin, triMax, centroids, triOrder, flat, flatCalls>>
  /\ UNCHANGED hostVars

\* recurse(start, end) with count > leaf, through the binning pass and the
\* prefix and suffix passes
recurseSplit ==
  /\ CallPending
  /\ LET start == CallStart
         end == CallEnd
     IN /\ ~LeafTest(end - start, leaf)
        /\ nodes' = Append(nodes, Null)
        /\ \E cMn \in {CentMn(triOrder, start, end)},
              cMx \in {CentMx(triOrder, start, end)} :
             \E bn \in {Binning(triOrder, start, end, cMn, cMx)} :
               stack' = Append(stack,
                 Frame(Len(nodes), start, end, BoundsMn(triOrder, start, end),
                       BoundsMx(triOrder, start, end), bn, PrefixSuffix(bn)))
  /\ UNCHANGED <<mesh, leaf, triMin, triMax, centroids, phase, triOrder, flat, flatCalls>>
  /\ UNCHANGED hostVars

\* best-split loop: no boundary taken, median fallback
chooseMedian ==
  /\ phase = "build" /\ stack # <<>> /\ Top.pc = "choose"
  /\ BestBin(Top.ps, SurfaceArea(Top.mn, Top.mx)) < 0
  /\ stack' = [stack EXCEPT ![Len(stack)] =
                 [Top EXCEPT !.pc = "left",
                             !.mid = MedianMid(Top.start, Top.end - Top.start)]]
  /\ UNCHANGED <<mesh, leaf, triMin, triMax, centroids, phase, triOrder, nodes, flat, flatCalls>>
  /\ UNCHANGED hostVars

\* best-split loop: a boundary is taken, the partition around its split
\* plane starts with i = start, j = end - 1
choosePlane ==
  /\ phase = "build" /\ stack # <<>> /\ Top.pc = "choose"
  /\ \E bestBin \in {BestBin(Top.ps, SurfaceArea(Top.mn, Top.mx))} :
       /\ bestBin >= 0
       /\ stack' = [stack EXCEPT ![Len(stack)] =
                      [Top EXCEPT !.pc = "partition",
                                  !.splitPos16 = SplitPos16(Top.bn, bestBin),
                                  !.i = Top.start,
                                  !.j = Top.end - 1]]
  /\ UNCHANGED <<mesh, leaf, triMin, triMax, centroids, phase, triOrder, nodes, flat, flatCalls>>
  /\ UNCHANGED hostVars

\* one iteration of the two-pointer loop while (i <= j)
partitionStep ==
  /\ phase = "build" /\ stack # <<>> /\ Top.pc = "partition"
  /\ Top.i <= Top.j
  /\ LET f == Top
         t == At(triOrder, f.i)
     IN IF LeftOfPlane(t, f.bn.axis, f.splitPos16)
        THEN /\ stack' = [stack EXCEPT ![Len(stack)].i = f.i + 1]
             /\ UNCHANGED triOrder
        ELSE /\ triOrder' = Swap(triOrder, f.i, f.j)
             /\ stack' = [stack EXCEPT ![Len(stack)].j = f.j - 1]
  /\ UNCHANGED <<mesh, leaf, triMin, triMax, centroids, phase, nodes, flat, flatCalls>>
  /\ UNCHANGED hostVars

\* the loop exits: mid = i
partitionEnd ==
  /\ phase = "build" /\ stack # <<>> /\ Top.pc = "partition"
  /\ Top.i > Top.j
  /\ stack' = [stack EXCEPT ![Len(stack)] = [Top EXCEPT !.mid = Top.i, !.pc = "left"]]
  /\ UNCHANGED <<mesh, leaf, triMin, triMax, centroids, phase, triOrder, nodes, flat, flatCalls>>
  /\ UNCHANGED hostVars

\* both children returned: the internal node is written and recurse returns
recurseJoin ==
  /\ phase = "build" /\ stack # <<>> /\ Top.pc = "join"
  /\ nodes' = Put(nodes, Top.nodeIdx, InnerNode(Top.mn, Top.mx, Top.l, Top.r))
  /\ stack' = Returned(SubSeq(stack, 1, Len(stack) - 1), Top.nodeIdx)
  /\ phase' = IF Len(stack) = 1 THEN "built" ELSE phase
  /\ UNCHANGED <<mesh, leaf, triMin, triMax, centroids, triOrder, flat, flatCalls>>
  /\ UNCHANGED hostVars

(* --------------------------- flattenForSSBO ---------------------------- *)
\* variant of FlatTriPos: the triangles are taken in mesh order, ti = i
FlatTriPosMeshOrder(m, bvh) ==
  [e \in 1..(Len(bvh.triOrder) * 12) |->
     LET i == (e - 1) \div 12
         v == ((e - 1) % 12) \div 4
         c == (e - 1) % 4
         vi == At(m.vertIdx, 3 * i + v)
     IN IF c = 3 THEN 0 ELSE Fround(At(m.positions, 3 * vi + c))]

\* triPos: tc*3 records of 4 floats, xyz of the corner and an untouched 0
FlatTriPos(m, bvh) ==
  [e \in 1..(Len(bvh.triOrder) * 12) |->
     LET i == (e - 1) \div 12
         v == ((e - 1) % 12) \div 4
         c == (e - 1) % 4
         ti == At(bvh.triOrder, i)
         vi == At(m.vertIdx, 3 * ti + v)
     IN IF c = 3 THEN 0 ELSE Fround(At(m.positions, 3 * vi + c))]
FlatTriNor(m, bvh) ==
  [e \in 1..(Len(bvh.triOrder) * 12) |->
     LET i == (e - 1) \div 12
         v == ((e - 1) % 12) \div 4
         c == (e - 1) % 4
         ti == At(bvh.triOrder, i)
         ni == At(m.normIdx, 3 * ti + v)
     IN IF c = 3 THEN 0 ELSE Fround(At(m.normals, 3 * ni + c))]
\* variant of FlatBvhData: the record is laid out mn, mx, left, right
FlatBvhDataMinMaxFirst(bvh) ==
  [e \in 1..(Len(bvh.nodes) * 8) |->
     LET n == At(bvh.nodes, (e - 1) \div 8)
         b == (e - 1) % 8
     IN IF b < 3 THEN Fround(At(n.mn, b))
        ELSE IF b < 6 THEN Fround(At(n.mx, b - 3))
        ELSE IF b = 6 THEN Fround(n.left)
        ELSE Fround(n.right)]

\* bvhData: nc records of 8 floats
FlatBvhData(bvh) ==
  [e \in 1..(Len(bvh.nodes) * 8) |->
     LET n == At(bvh.nodes, (e - 1) \div 8)
         b == (e - 1) % 8
     IN IF b < 3 THEN Fround(At(n.mn, b))
        ELSE IF b = 3 THEN Fround(n.left)
        ELSE IF b < 7 THEN Fround(At(n.mx, b - 4))
        ELSE Fround(n.right)]

\* variant of flattenForSSBO: bvh.triOrder is sorted in place once read
flattenSortingOrder(m, bvh) ==
  [ ret |-> [ triPos |-> FlatTriPos(m, bvh), triNor |-> FlatTriNor(m, bvh),
              bvhData |-> FlatBvhData(bvh) ],
    mesh |-> m,
    bvh |-> [bvh EXCEPT !.triOrder = [i \in 1..Len(bvh.triOrder) |-> i - 1]] ]

\* flattenForSSBO(mesh, bvh): the three arrays it returns, and its two
\* arguments as the call leaves them (it writes to neither)
flattenForSSBO(m, bvh) ==
  [ ret |-> [ triPos |-> FlatTriPos(m, bvh), triNor |-> FlatTriNor(m, bvh),
              bvhData |-> FlatBvhData(bvh) ],
    mesh |-> m, bvh |-> bvh ]

\* const { triPos, triNor, bvhData } = flattenForSSBO(raw, bvh)
callFlatten ==
  /\ phase = "built"
  /\ LET r == flattenForSSBO(mesh, [nodes |-> nodes, triOrder |-> triOrder])
     IN /\ flat' = r.ret
        /\ mesh' = r.mesh
        /\ nodes' = r.bvh.nodes
        /\ triOrder' = r.bvh.triOrder
  /\ flatCalls' = flatCalls + 1
  /\ phase' = "flattened"
  /\ UNCHANGED <<leaf, triMin, triMax, centroids, stack>>
  /\ UNCHANGED hostVars

\* a further call of flattenForSSBO on the same mesh and the same tree
callFlattenAgain ==
  /\ phase = "flattened"
  /\ flatCalls < MaxFlattens
  /\ LET r == flattenForSSBO(mesh, [nodes |-> nodes, triOrder |-> triOrder])
     IN /\ flat' = r.ret
        /\ mesh' = r.mesh
        /\ nodes' = r.bvh.nodes
        /\ triOrder' = r.bvh.triOrder
  /\ flatCalls' = flatCalls + 1
  /\ UNCHANGED <<leaf, phase, triMin, triMax, centroids, stack>>
  /\ UNCHANGED hostVars

(* ------------------------------ splitHalf ------------------------------ *)
\* TypedArray.prototype.slice(from, to) with 0 <= from, to: both ends are
\* clamped to the length, the result is a fresh array
Slice(a, from, to) ==
  LET lo == IF from > Len(a) THEN Len(a) ELSE from
      hi == IF to > Len(a) THEN Len(a) ELSE to
  IN SubSeq(a, lo + 1, hi)

\* variant of HalfCount: Math.floor instead of Math.ceil
HalfCountFloor(len) == len \div 8

\* h = Math.ceil(vc / 2) with vc = a.length / 4, that is ceil(len / 8)
HalfCount(len) == (len + 7) \div 8

\* variant of splitHalf: the second chunk starts one record late
splitHalfGap(a) ==
  << Slice(a, 0, HalfCount(Len(a)) * 4), Slice(a, HalfCount(Len(a)) * 4 + 4, Len(a)) >>

\* splitHalf(a) = [ a.slice(0, h*4), a.slice(h*4) ]
splitHalf(a) ==
  << Slice(a, 0, HalfCount(Len(a)) * 4), Slice(a, HalfCount(Len(a)) * 4, Len(a)) >>

\* the floats the arrays handed to splitHalf on its own are made of
Floats == {0, 1}
\* the array of scenario C: 100 records of 4 floats, all floats distinct
Hundred == [i \in 1..400 |-> i - 1]
\* arrays of up to 4 * MaxRecs floats, of every length, and the 100 records
Arrays == UNION { [1..n -> Floats] : n \in 0..(4 * MaxRecs) } \cup {Hundred}

\* a call of splitHalf on an array of its own
InitSplit ==
  /\ mesh = MeshOf(<< CHOOSE f \in Faces : f.v = <<0, 1, 2>> >>)
  /\ leaf = 1
  /\ phase = "loaded"
  /\ triMin = <<>>
  /\ triMax = <<>>
  /\ centroids = <<>>
  /\ triOrder = <<>>
  /\ nodes = <<>>
  /\ stack = <<>>
  /\ flat = [triPos |-> <<>>, triNor |-> <<>>, bvhData |-> <<>>]
  /\ flatCalls = 0
  /\ chunks = NoChunks
  /\ bufs = NoBufs
  /\ code = <<>>
  /\ pipeline = Null
  /\ bindGroup = Null
  /\ keys = <<>>
  /\ yaw = 0
  /\ listening = FALSE
  /\ scale = <<1, 1, 1>>
  /\ cameraPos = 0
  /\ frameCount = 0
  /\ arr \in Arrays
  /\ halves = <<>>
  /\ codes = <<>>
  /\ InitTemporalVars

callSplitHalfAlone ==
  /\ halves = <<>>
  /\ halves' = splitHalf(arr)
  /\ UNCHANGED <<mesh, leaf, phase, triMin, triMax, centroids, triOrder, nodes, stack,
                 flat, flatCalls, packVars, inputVars, arr, mortonVars,
                 temporalVars>>

NextSplit == callSplitHalfAlone
SpecSplit == InitSplit /\ [][NextSplit]_vars

Next ==
  \/ buildInit
  \/ recurseLeaf
  \/ recurseSplit
  \/ chooseMedian
  \/ choosePlane
  \/ partitionStep
  \/ partitionEnd
  \/ recurseJoin
  \/ callFlatten

Spec == Init /\ [][Next]_vars

\* the build runs to completion: every enabled step is eventually taken
FairSpec == Spec /\ WF_vars(Next)

\* the pipeline followed by repeated calls of flattenForSSBO
NextReflatten == Next \/ callFlattenAgain
SpecReflatten == Init /\ [][NextReflatten]_vars

\* the build on the meshes with centroids on rounded bucket boundaries
SpecRounding == InitRounding /\ [][Next]_vars

(* ------------------- the page: pack, upload, render -------------------- *)
\* the faces of the mesh the page loads
PageFaces == {f \in Faces : f.v \in {<<0, 1, 2>>, <<3, 4, 5>>}}
PageMeshes == { MeshOf(fs) : fs \in UNION { [1..n -> PageFaces] : n \in 1..MaxPageTris } }

\* the page loads one mesh and calls buildLBVH(raw, 1)
InitPage == Init /\ mesh \in PageMeshes /\ leaf = 1

\* String(n) of a non-negative integer: its decimal digits
RECURSIVE Decimal(_)
Decimal(n) ==
  LET digit(d) == <<"0", "1", "2", "3", "4", "5", "6", "7", "8", "9">>[d + 1]
  IN IF n < 10 THEN <<digit(n)>> ELSE Append(Decimal(n \div 10), digit(n % 10))

\* variant of CountConst: the length in floats, not in records
CountConstFloats(chunk) == Append(Decimal(Len(chunk)), "u")

\* `${chunk.length/4}u`; the chunks of the page have a length that is a
\* multiple of 4, the quotient is an integer
CountConst(chunk) == Append(Decimal(Len(chunk) \div 4), "u")

\* makeBuf(arr): a storage buffer of arr.byteLength bytes holding arr
makeBuf(a) ==
  [size |-> 4 * Len(a), usage |-> {"STORAGE", "COPY_DST"}, data |-> a]

\* the uniform data of a frame, by what it is computed from: the camera
\* position, the view direction and the model transform
Udat(cam, yw, sc) == <<cam, yw, sc>>

\* variant of WriteUniform: the data goes to the first position buffer
WriteUniformToPos0(b, udat) == [b EXCEPT !.pos0Buf.data = udat]

\* device.queue.writeBuffer(uniformBuf, 0, udat)
WriteUniform(b, udat) == [b EXCEPT !.uniformBuf.data = udat]

\* const [p0,p1] = splitHalf(triPos); ... n0,n1 ... b0,b1
callSplitHalf ==
  /\ phase = "flattened"
  /\ chunks' = [ p0 |-> splitHalf(flat.triPos)[1], p1 |-> splitHalf(flat.triPos)[2],
                 n0 |-> splitHalf(flat.triNor)[1], n1 |-> splitHalf(flat.triNor)[2],
                 b0 |-> splitHalf(flat.bvhData)[1], b1 |-> splitHalf(flat.bvhData)[2] ]
  /\ phase' = "packed"
  /\ UNCHANGED <<mesh, leaf, triMin, triMax, centroids, triOrder, nodes, stack,
                 flat, flatCalls, bufs, code, pipeline, bindGroup, inputVars, splitVars, mortonVars,
                 temporalVars>>

\* the six makeBuf calls and the creation of the uniform buffer; the
\* handler then awaits loadText("shader.wgsl")
callMakeBuf ==
  /\ phase = "packed"
  /\ bufs' = [ pos0Buf |-> makeBuf(chunks.p0), pos1Buf |-> makeBuf(chunks.p1),
               nor0Buf |-> makeBuf(chunks.n0), nor1Buf |-> makeBuf(chunks.n1),
               bvh0Buf |-> makeBuf(chunks.b0), bvh1Buf |-> makeBuf(chunks.b1),
               uniformBuf |-> [size |-> 4 * 4 * 9, usage |-> {"UNIFORM", "COPY_DST"},
                               data |-> Udat(0, 0, <<0, 0, 0>>)] ]
  /\ phase' = "uploaded"
  /\ UNCHANGED <<mesh, leaf, triMin, triMax, centroids, triOrder, nodes, stack,
                 flat, flatCalls, chunks, code, pipeline, bindGroup, inputVars, splitVars, mortonVars,
                 temporalVars>>

\* the shader text arrives: constants substituted, pipeline and bind group
\* created, input handlers registered, first frame requested
loadTextResolved ==
  /\ phase = "uploaded"
  /\ code' = [ COUNT_POS0 |-> CountConst(chunks.p0), COUNT_NOR0 |-> CountConst(chunks.n0),
               COUNT_BVH0 |-> CountConst(chunks.b0) ]
  /\ pipeline' = [module |-> code', fragment |-> "fs_main"]
  /\ bindGroup' = <<"pos0Buf", "pos1Buf", "nor0Buf", "nor1Buf", "bvh0Buf", "bvh1Buf",
                    "uniformBuf">>
  /\ phase' = "running"
  /\ UNCHANGED <<mesh, leaf, triMin, triMax, centroids, triOrder, nodes, stack,
                 flat, flatCalls, chunks, bufs, inputVars, splitVars, mortonVars,
                 temporalVars>>

\* loadText throws (the fetch fails): the handler ends, no frame is requested
loadTextRejected ==
  /\ phase = "uploaded"
  /\ phase' = "failed"
  /\ UNCHANGED <<mesh, leaf, triMin, triMax, centroids, triOrder, nodes, stack,
                 flat, flatCalls, packVars, inputVars, splitVars, mortonVars,
                 temporalVars>>

\* variant of FrameRequested: the frame is requested before the await
FrameRequestedEarly == phase \in {"uploaded", "running"}

\* requestAnimationFrame(frame) has been called and the callback is pending;
\* the input handlers are registered in the same synchronous block
FrameRequested == phase = "running"

\* the keys the model presses
Keys == {"w"}

keydown ==
  /\ FrameRequested
  /\ \E k \in Keys :
       keys' = IF \E i \in 1..Len(keys) : keys[i] = k THEN keys ELSE Append(keys, k)
  /\ UNCHANGED <<mesh, leaf, phase, triMin, triMax, centroids, triOrder, nodes, stack,
                 flat, flatCalls, packVars, yaw, listening, scale, cameraPos, frameCount,
                 splitVars, mortonVars,
                 temporalVars>>

keyup ==
  /\ FrameRequested
  /\ \E k \in Keys : keys' = SelectSeq(keys, LAMBDA x : x # k)
  /\ UNCHANGED <<mesh, leaf, phase, triMin, triMax, centroids, triOrder, nodes, stack,
                 flat, flatCalls, packVars, yaw, listening, scale, cameraPos, frameCount,
                 splitVars, mortonVars,
                 temporalVars>>

\* pointerlockchange: onMouseMove is added to or removed from the document
pointerlockchange ==
  /\ FrameRequested
  /\ \E locked \in BOOLEAN : listening' = locked
  /\ UNCHANGED <<mesh, leaf, phase, triMin, triMax, centroids, triOrder, nodes, stack,
                 flat, flatCalls, packVars, keys, yaw, scale, cameraPos, frameCount,
                 splitVars, mortonVars,
                 temporalVars>>

\* onMouseMove(e) with e.movementX one unit to the right, e.movementY = 0
\* (pitch keeps its value 0); yaw counts units of 0.002
onMouseMove ==
  /\ FrameRequested
  /\ listening
  /\ yaw < MaxMove
  /\ yaw' = yaw + 1
  /\ UNCHANGED <<mesh, leaf, phase, triMin, triMax, centroids, triOrder, nodes, stack,
                 flat, flatCalls, packVars, keys, listening, scale, cameraPos, frameCount,
                 splitVars, mortonVars,
                 temporalVars>>

\* input event of the slider scaleX with value 1 or 2:
\* scale[0] = Math.max(0.01, parseFloat(value))
sliderInput ==
  /\ FrameRequested
  /\ \E value \in {1, 2} : scale' = [scale EXCEPT ![1] = IF value > 0 THEN value ELSE 0]
  /\ UNCHANGED <<mesh, leaf, phase, triMin, triMax, centroids, triOrder, nodes, stack,
                 flat, flatCalls, packVars, keys, yaw, listening, cameraPos, frameCount,
                 splitVars, mortonVars,
                 temporalVars>>

\* frame(nowMS): FPS bookkeeping (frameCount is reset when a second has
\* passed), updateCamera (one step forward while "w" is held), the uniform
\* data written to uniformBuf, the draw, the next frame requested
frame ==
  /\ FrameRequested
  /\ \E second \in BOOLEAN :
       IF second THEN frameCount' = 0
       ELSE frameCount < MaxFrames /\ frameCount' = frameCount + 1
  /\ IF \E i \in 1..Len(keys) : keys[i] = "w"
     THEN cameraPos < MaxMove /\ cameraPos' = cameraPos + 1
     ELSE cameraPos' = cameraPos
  /\ bufs' = WriteUniform(bufs, Udat(cameraPos', yaw, scale))
  /\ UNCHANGED <<mesh, leaf, phase, triMin, triMax, centroids, triOrder, nodes, stack,
                 flat, flatCalls, chunks, code, pipeline, bindGroup, keys, yaw, listening,
                 scale, splitVars, mortonVars,
                 temporalVars>>

NextPage ==
  \/ Next
  \/ callSplitHalf
  \/ callMakeBuf
  \/ loadTextResolved
  \/ loadTextRejected
  \/ keydown
  \/ keyup
  \/ pointerlockchange
  \/ onMouseMove
  \/ sliderInput
  \/ frame
SpecPage == InitPage /\ [][NextPage]_vars

(* ---------------------- the Morton (LBVH) builder ---------------------- *)
\* 10-bit quantisation of a centroid coordinate c relative to the scene
\* bounds mn .. mn + ext of the centroids: floor(1024 * clamp((c - mn)/ext,
\* 0, 0.999999)); a flat axis (ext = 0) quantises to 0
Quantize(c, mn, ext) ==
  IF ext <= 0 THEN 0
  ELSE LET q == ((c - mn) * 1024) \div ext
       IN IF q < 0 THEN 0 ELSE IF q > 1023 THEN 1023 ELSE q

\* the 10 bits of v spread to every third bit position
RECURSIVE ExpandBits(_, _)
ExpandBits(v, n) ==
  IF n = 0 THEN 0 ELSE (v % 2) + 8 * ExpandBits(v \div 2, n - 1)

\* 30-bit interleave of three 10-bit integers
Interleave(x, y, z) == 4 * ExpandBits(x, 10) + 2 * ExpandBits(y, 10) + ExpandBits(z, 10)

\* Morton code of each triangle of the mesh, from the centroid array cs
MortonCodes(cs, n) ==
  LET mn == Arr([a \in 1..3 |-> MinOf({At(cs, 3 * t + a - 1) : t \in 0..(n - 1)})])
      mx == Arr([a \in 1..3 |-> MaxOf({At(cs, 3 * t + a - 1) : t \in 0..(n - 1)})])
  IN Arr([e \in 1..n |->
        Interleave(Quantize(At(cs, 3 * (e - 1)), mn[1], mx[1] - mn[1]),
                   Quantize(At(cs, 3 * (e - 1) + 1), mn[2], mx[2] - mn[2]),
                   Quantize(At(cs, 3 * (e - 1) + 2), mn[3], mx[3] - mn[3]))])

\* order is an arrangement of the triangles 0 .. n-1 by ascending code
SortedBy(order, cd, n) ==
  /\ \A t \in 0..(n - 1) : \E i \in 1..n : order[i] = t
  /\ \A i \in 1..(n - 1) : At(cd, order[i]) <= At(cd, order[i + 1])

\* the tree over order[start .. end) split at the index midpoint, nodes in
\* the order they are pushed, the first at index base
RECURSIVE MidpointTree(_, _, _, _, _)
MidpointTree(order, start, end, cap, base) ==
  LET mn == BoundsMn(order, start, end)
      mx == BoundsMx(order, start, end)
  IN IF end - start <= cap
     THEN <<LeafNode(mn, mx, start, end - start)>>
     ELSE LET mid == start + ((end - start) \div 2)
              l == MidpointTree(order, start, mid, cap, base + 1)
              r == MidpointTree(order, mid, end, cap, base + 1 + Len(l))
          IN <<InnerNode(mn, mx, base + 1, base + 1 + Len(l))>> \o l \o r

\* steps 1 to 3: scene bounds of the centroids, quantisation, interleave
mortonCodes ==
  /\ phase = "build" /\ stack = <<>> /\ nodes = <<>> /\ codes = <<>>
  /\ codes' = MortonCodes(centroids, tris)
  /\ UNCHANGED <<mesh, leaf, phase, triMin, triMax, centroids, triOrder, nodes, stack,
                 flat, flatCalls, packVars, inputVars, splitVars, temporalVars>>

\* step 4: the triangle indices sorted by ascending code (equal codes in
\* any order)
mortonSort ==
  /\ phase = "build" /\ codes # <<>>
  /\ \E order \in [1..tris -> 0..(tris - 1)] :
       /\ SortedBy(order, codes, tris)
       /\ triOrder' = order
  /\ phase' = "sorted"
  /\ UNCHANGED <<mesh, leaf, triMin, triMax, centroids, nodes, stack,
                 flat, flatCalls, packVars, inputVars, splitVars, mortonVars,
                 temporalVars>>

\* step 5: the tree by index midpoint over the sorted order
mortonBuild ==
  /\ phase = "sorted"
  /\ nodes' = MidpointTree(triOrder, 0, tris, leaf, 0)
  /\ phase' = "built"
  /\ UNCHANGED <<mesh, leaf, triMin, triMax, centroids, triOrder, stack,
                 flat, flatCalls, packVars, inputVars, splitVars, mortonVars,
                 temporalVars>>

NextMorton ==
  \/ buildInit
  \/ mortonCodes
  \/ mortonSort
  \/ mortonBuild
SpecMorton == Init /\ [][NextMorton]_vars

(* ======================= properties of the build ======================= *)
\* buildLBVH has returned
Built == phase \in {"built", "flattened"}

Ident(n) == [i \in 1..n |-> i - 1]

\* AABB of triangle t, from the corner positions of the mesh
AabbMin(t, k) == MinOf({Corner(mesh, t, v, k) : v \in 0..2})
AabbMax(t, k) == MaxOf({Corner(mesh, t, v, k) : v \in 0..2})
\* union of the AABBs of the triangles in the set S
UnionMin(S) == <<MinOf({AabbMin(t, 0) : t \in S}), MinOf({AabbMin(t, 1) : t \in S}),
                 MinOf({AabbMin(t, 2) : t \in S})>>
UnionMax(S) == <<MaxOf({AabbMax(t, 0) : t \in S}), MaxOf({AabbMax(t, 1) : t \in S}),
                 MaxOf({AabbMax(t, 2) : t \in S})>>
\* the triangles of a leaf, read from the current triOrder
LeafTris(n) == {At(triOrder, s) : s \in n.left..(n.left - n.right - 1)}

Min2(a, b) == IF a <= b THEN a ELSE b
Max2(a, b) == IF a >= b THEN a ELSE b

\* C1: from the identity initialisation on, through every swap of the
\* partition and in the returned result, triOrder has length T and every
\* triangle index of [0, T) appears in it exactly once.
C1_TriOrderPermutation ==
  phase # "loaded" =>
    /\ Len(triOrder) = tris
    /\ \A t \in 0..(tris - 1) : Cardinality({i \in 1..tris : triOrder[i] = t}) = 1

\* reached: a build in progress whose partition has swapped triangles
C1_Witness ==
  /\ phase = "build"
  /\ stack # <<>>
  /\ triOrder # Ident(tris)

\* C2: in the returned tree the bounds of an internal node are the
\* component-wise union of the bounds of its two children, and the bounds of
\* a leaf are the union of the AABBs of the triangles its range holds in the
\* final triOrder.
C2_NodeBounds ==
  Built =>
    \A i \in 1..Len(nodes) :
      LET n == nodes[i]
      IN IF n.right < 0
         THEN n.mn = UnionMin(LeafTris(n)) /\ n.mx = UnionMax(LeafTris(n))
         ELSE LET l == At(nodes, n.left)
                  r == At(nodes, n.right)
              IN \A a \in 1..3 : /\ n.mn[a] = Min2(l.mn[a], r.mn[a])
                                 /\ n.mx[a] = Max2(l.mx[a], r.mx[a])

\* reached: a returned tree with an internal node below the root, built with
\* swaps (the order is no longer the identity)
C2_Witness ==
  /\ Built
  /\ triOrder # Ident(tris)
  /\ \E i \in 2..Len(nodes) : nodes[i].right > 0

\* the nodes below node i, i included
RECURSIVE Subtree(_)
Subtree(i) ==
  LET n == At(nodes, i)
  IN IF n.right < 0 THEN {i}
     ELSE {i} \cup Subtree(n.left) \cup Subtree(n.right)

\* C3: the root of the returned tree is node 0 (it is no node's child and
\* every node lies below it) and its bounds are the union of the AABBs of
\* all T triangles.
C3_RootBounds ==
  Built =>
    /\ Len(nodes) >= 1
    /\ \A i \in 1..Len(nodes) :
         nodes[i].right >= 0 => nodes[i].left # 0 /\ nodes[i].right # 0
    /\ Subtree(0) = 0..(Len(nodes) - 1)
    /\ At(nodes, 0).mn = UnionMin(0..(tris - 1))
    /\ At(nodes, 0).mx = UnionMax(0..(tris - 1))

\* reached: a returned tree over three triangles whose root is internal and
\* larger than the box of each single triangle
C3_Witness ==
  /\ Built
  /\ tris >= 3
  /\ At(nodes, 0).right > 0
  /\ \A t \in 0..(tris - 1) : At(nodes, 0).mx # UnionMax({t})

\* C4: every leaf of the returned tree holds at least one and at most
\* leafCapacity triangles (no node carries the count 0, and a negative right
\* is at least -leafCapacity); with leafCapacity = 1 every leaf holds
\* exactly one triangle.
C4_LeafSize ==
  Built =>
    \A i \in 1..Len(nodes) :
      LET n == nodes[i]
      IN /\ n.right # 0
         /\ n.right < 0 => (1 <= -n.right /\ -n.right <= leaf)
         /\ (n.right < 0 /\ leaf = 1) => n.right = -1

\* reached: a tree built with leafCapacity 2 that has a full leaf and a leaf
\* with a single triangle
C4_Witness ==
  /\ Built
  /\ leaf = 2
  /\ \E i \in 1..Len(nodes) : nodes[i].right = -2
  /\ \E i \in 1..Len(nodes) : nodes[i].right = -1

\* the AABBs of triangles t and u are disjoint
Disjoint(t, u) ==
  \E k \in 0..2 : AabbMax(t, k) < AabbMin(u, k) \/ AabbMax(u, k) < AabbMin(t, k)

\* C5: with leafCapacity = 1 the returned tree has exactly 2T - 1 nodes and
\* every internal node has two distinct children that are nodes of the
\* array; two triangles with disjoint boxes give 3 nodes, a root bounding
\* both boxes and two leaves with right = -1, one per triangle, each with
\* the box of its triangle.
C5_StrictTree ==
  (Built /\ leaf = 1) =>
    /\ Len(nodes) = 2 * tris - 1
    /\ \A i \in 1..Len(nodes) :
         nodes[i].right >= 0 =>
           /\ nodes[i].left \in 1..(Len(nodes) - 1)
           /\ nodes[i].right \in 1..(Len(nodes) - 1)
           /\ nodes[i].left # nodes[i].right
    /\ (tris = 2 /\ Disjoint(0, 1)) =>
         /\ Len(nodes) = 3
         /\ At(nodes, 0).mn = UnionMin({0, 1})
         /\ At(nodes, 0).mx = UnionMax({0, 1})
         /\ {At(nodes, 0).left, At(nodes, 0).right} = {1, 2}
         /\ \A c \in {1, 2} :
              /\ At(nodes, c).right = -1
              /\ At(nodes, c).mn = UnionMin({At(triOrder, At(nodes, c).left)})
              /\ At(nodes, c).mx = UnionMax({At(triOrder, At(nodes, c).left)})
         /\ At(triOrder, At(nodes, 1).left) # At(triOrder, At(nodes, 2).left)

\* reached: the tree of two triangles with disjoint boxes, leafCapacity 1,
\* whose partition exchanged the two triangles
C5_Witness ==
  /\ Built
  /\ leaf = 1
  /\ tris = 2
  /\ Disjoint(0, 1)
  /\ triOrder = <<1, 0>>

\* C6: a node written by the leaf branch has right = -count < 0 and left =
\* start; a node written after two recursive calls has left >= 0 and
\* right >= 0; in the returned tree a node with right < 0 has count >= 1 and
\* its range [left, left + count) inside [0, T), and any other node has left
\* and right that are indices of other nodes of the array.
C6_LeafEncoding ==
  /\ [](Built =>
         \A i \in 1..Len(nodes) :
           LET n == nodes[i]
           IN IF n.right < 0
              THEN 0 <= n.left /\ 1 <= -n.right /\ n.left + (-n.right) <= tris
              ELSE /\ n.left \in 0..(Len(nodes) - 1)
                   /\ n.right \in 0..(Len(nodes) - 1)
                   /\ n.left # i - 1
                   /\ n.right # i - 1)
  /\ [][recurseLeaf =>
          LET n == nodes'[Len(nodes')]
          IN /\ n.right < 0
             /\ n.right = -(CallEnd - CallStart)
             /\ n.left = CallStart]_vars
  /\ [][recurseJoin =>
          LET n == At(nodes', Top.nodeIdx)
          IN n.left >= 0 /\ n.right >= 0]_vars

\* reached: a returned tree with an internal node and a leaf of two triangles
\* that does not start at offset 0
C6_Witness ==
  /\ Built
  /\ \E i \in 1..Len(nodes) : nodes[i].right > 0
  /\ \E i \in 1..Len(nodes) : nodes[i].right = -2 /\ nodes[i].left > 0

\* the range of the call the frame f has made or is about to make
ChildStart(f) == IF f.pc = "left" THEN f.start ELSE f.mid
ChildEnd(f) == IF f.pc = "left" THEN f.mid ELSE f.end

\* every call of recurse is on a non-empty range, and every recursive call
\* on a strictly smaller range inside its parent's; the stack stays below
\* the depth the model follows
CallsShrink ==
  /\ (phase = "build" /\ stack = <<>>) => 0 < tris
  /\ Len(stack) < MaxDepth
  /\ \A d \in 1..Len(stack) :
       LET f == stack[d]
       IN f.pc \in {"left", "right"} =>
            /\ f.start <= ChildStart(f)
            /\ ChildStart(f) < ChildEnd(f)
            /\ ChildEnd(f) <= f.end
            /\ ChildEnd(f) - ChildStart(f) < f.end - f.start

\* C7: buildLBVH terminates (the root call returns) for every mesh,
\* degenerate ones included, and every call of recurse it makes is on a
\* non-empty range that is strictly smaller than its parent's.
C7_BuildTerminates == []CallsShrink /\ <>(phase = "built")

\* triangles t and u have the same centroid
SameCentroid(t, u) == \A k \in 0..2 : At(centroids, 3 * t + k) = At(centroids, 3 * u + k)

\* reached: the returned tree of three triangles with leafCapacity 1, among
\* them a zero-area triangle and two triangles with one centroid
C7_Witness ==
  /\ Built
  /\ leaf = 1
  /\ tris = 3
  /\ Len(nodes) = 5
  /\ \E t \in 0..2 : \A k \in 0..2 : AabbMin(t, k) = AabbMax(t, k)
  /\ \E t, u \in 0..2 : t # u /\ SameCentroid(t, u)

(* ===================== properties of the flattening ==================== *)
\* the 4-float record r of a flattened array
Record4(a, r) == <<At(a, 4 * r), At(a, 4 * r + 1), At(a, 4 * r + 2), At(a, 4 * r + 3)>>

\* C8: triPos and triNor hold exactly 3T records of 4 floats; record i is
\* the position (the normal) of corner i mod 3 of triangle triOrder[i div 3]
\* followed by a 0; hence the records 3s .. 3s+2 of every slot s of a leaf's
\* range [left, left - right) lie inside the bounds of that leaf.
C8_TriRecords ==
  phase = "flattened" =>
    /\ Len(flat.triPos) = 4 * 3 * tris
    /\ Len(flat.triNor) = 4 * 3 * tris
    /\ \A i \in 0..(3 * tris - 1) :
         LET t == At(triOrder, i \div 3)
             vi == At(mesh.vertIdx, 3 * t + (i % 3))
             ni == At(mesh.normIdx, 3 * t + (i % 3))
         IN /\ Record4(flat.triPos, i) =
                 <<At(mesh.positions, 3 * vi), At(mesh.positions, 3 * vi + 1),
                   At(mesh.positions, 3 * vi + 2), 0>>
            /\ Record4(flat.triNor, i) =
                 <<At(mesh.normals, 3 * ni), At(mesh.normals, 3 * ni + 1),
                   At(mesh.normals, 3 * ni + 2), 0>>
    /\ \A x \in 1..Len(nodes) :
         nodes[x].right < 0 =>
           \A s \in nodes[x].left..(nodes[x].left - nodes[x].right - 1) :
             \A c \in 0..2, a \in 0..2 :
               /\ nodes[x].mn[a + 1] <= At(flat.triPos, 4 * (3 * s + c) + a)
               /\ At(flat.triPos, 4 * (3 * s + c) + a) <= nodes[x].mx[a + 1]

\* reached: flattened buffers of a tree whose build reordered the triangles
\* of a mesh of distinct triangles
C8_Witness ==
  /\ phase = "flattened"
  /\ tris >= 2
  /\ triOrder # Ident(tris)
  /\ \A t, u \in 0..(tris - 1) : t # u => UnionMin({t}) # UnionMin({u})

C11_SplitConcat ==
  Len(arr) % 4 = 0 =>
    /\ halves = <<>> => ENABLED callSplitHalfAlone
    /\ halves # <<>> =>
         /\ Len(halves) = 2
         /\ halves[1] \o halves[2] = arr
         /\ Len(halves[1]) + Len(halves[2]) = Len(arr)

\* reached: scenario C, the array of 100 records split into 50 and 50
C11_Witness ==
  /\ Len(arr) = 400
  /\ halves # <<>>
  /\ Len(halves[1]) = 200
  /\ Len(halves[2]) = 200

\* C12: for an array of n records of 4 floats the first chunk holds
\* ceil(n/2) records and the second floor(n/2), so the counts differ by at
\* most one and the boundary is a multiple of 4 floats.
C12_SplitHalves ==
  (Len(arr) % 4 = 0 /\ halves # <<>>) =>
    LET n == Len(arr) \div 4
    IN /\ Len(halves[1]) = 4 * ((n + 1) \div 2)
       /\ Len(halves[2]) = 4 * (n \div 2)
       /\ Len(halves[1]) % 4 = 0
       /\ Len(halves[1]) - Len(halves[2]) \in {0, 4}

\* reached: an array of 3 records split into 2 records and 1 record
C12_Witness ==
  /\ Len(arr) = 12
  /\ halves # <<>>
  /\ Len(halves[1]) = 8
  /\ Len(halves[2]) = 4

\* the number a shader constant of the form <digits>u stands for
RECURSIVE DigitsValue(_)
DigitsValue(ds) ==
  IF ds = <<>> THEN 0
  ELSE 10 * DigitsValue(SubSeq(ds, 1, Len(ds) - 1))
       + (CHOOSE d \in 0..9 : Decimal(d) = <<ds[Len(ds)]>>)
ConstValue(c) == DigitsValue(SubSeq(c, 1, Len(c) - 1))

\* record r of the unsplit array a is record r of the first chunk when
\* r < k, and record r - k of the second chunk otherwise
SplitAt(a, first, second, k) ==
  \A r \in 0..((Len(a) \div 4) - 1) :
    IF r < k
    THEN r < Len(first) \div 4 /\ Record4(a, r) = Record4(first, r)
    ELSE r - k < Len(second) \div 4 /\ Record4(a, r) = Record4(second, r - k)

\* C13: each of the constants __COUNT_POS0__, __COUNT_NOR0__ and
\* __COUNT_BVH0__ is the decimal record count of the first chunk of its
\* array followed by u, that is ceil(recordCount / 2), and it locates every
\* record of the unsplit array in the two uploaded buffers.
C13_ShaderCounts ==
  code # <<>> =>
    /\ code.COUNT_POS0[Len(code.COUNT_POS0)] = "u"
    /\ code.COUNT_NOR0[Len(code.COUNT_NOR0)] = "u"
    /\ code.COUNT_BVH0[Len(code.COUNT_BVH0)] = "u"
    /\ ConstValue(code.COUNT_POS0) = Len(chunks.p0) \div 4
    /\ ConstValue(code.COUNT_NOR0) = Len(chunks.n0) \div 4
    /\ ConstValue(code.COUNT_BVH0) = Len(chunks.b0) \div 4
    /\ ConstValue(code.COUNT_POS0) = (Len(flat.triPos) \div 4 + 1) \div 2
    /\ ConstValue(code.COUNT_NOR0) = (Len(flat.triNor) \div 4 + 1) \div 2
    /\ ConstValue(code.COUNT_BVH0) = (Len(flat.bvhData) \div 4 + 1) \div 2
    /\ SplitAt(flat.triPos, bufs.pos0Buf.data, bufs.pos1Buf.data, ConstValue(code.COUNT_POS0))
    /\ SplitAt(flat.triNor, bufs.nor0Buf.data, bufs.nor1Buf.data, ConstValue(code.COUNT_NOR0))
    /\ SplitAt(flat.bvhData, bufs.bvh0Buf.data, bufs.bvh1Buf.data, ConstValue(code.COUNT_BVH0))

\* reached: the constants of a mesh of two triangles, 6 position records
\* split 3 and 3 and 6 node records split 3 and 3
C13_Witness ==
  /\ code # <<>>
  /\ tris = 2
  /\ code.COUNT_POS0 = <<"3", "u">>
  /\ code.COUNT_BVH0 = <<"3", "u">>
  /\ Len(bufs.pos1Buf.data) = 12

\* position of a phase in the initialisation of the page
Rank(ph) ==
  CASE ph = "loaded" -> 0
    [] ph = "build" -> 1
    [] ph = "built" -> 2
    [] ph = "flattened" -> 3
    [] ph = "packed" -> 4
    [] ph = "uploaded" -> 5
    [] ph = "running" -> 6
    [] ph = "failed" -> 6

\* the six storage buffers
StorageBufs ==
  <<bufs.pos0Buf, bufs.pos1Buf, bufs.nor0Buf, bufs.nor1Buf, bufs.bvh0Buf, bufs.bvh1Buf>>

\* the six storage buffers, the pipeline and the bind group exist
AllCreated ==
  /\ \A i \in 1..6 : StorageBufs[i] # Null
  /\ pipeline # Null
  /\ bindGroup # Null

\* C14: the stages follow one another in the order build, flatten, pack,
\* upload and none is entered twice: the tree changes only during the
\* build, the flattened arrays are written only by the one step from built
\* to flattened, the chunks only by the one step from flattened to packed,
\* the storage buffers only by the one step from packed to uploaded; and
\* frame() runs only when the storage buffers, the pipeline and the bind
\* group exist.
C14_InitOrder ==
  /\ [][/\ Rank(phase') >= Rank(phase)
        /\ Rank(phase') <= Rank(phase) + 1
        /\ (nodes' # nodes \/ triOrder' # triOrder) => (Rank(phase) <= 1 /\ Rank(phase') <= 2)
        /\ flat' # flat => (phase = "built" /\ phase' = "flattened" /\ flatCalls' = 1)
        /\ chunks' # chunks => (phase = "flattened" /\ phase' = "packed")
        /\ StorageBufs' # StorageBufs => (phase = "packed" /\ phase' = "uploaded")
        /\ (pipeline' # pipeline \/ bindGroup' # bindGroup) =>
             (phase = "uploaded" /\ phase' = "running")]_vars
  /\ [][frame => (AllCreated /\ flatCalls = 1 /\ chunks # NoChunks /\ Rank(phase) = 6)]_vars
  /\ [](Rank(phase) < 6 => (frameCount = 0 /\ cameraPos = 0 /\
                            (bufs.uniformBuf # Null =>
                               bufs.uniformBuf.data = Udat(0, 0, <<0, 0, 0>>))))

\* reached: the render loop has run frames after a complete initialisation
C14_Witness ==
  /\ phase = "running"
  /\ frameCount = 2
  /\ AllCreated
  /\ bufs.uniformBuf.data # Udat(0, 0, <<0, 0, 0>>)

CentroidOf(t, k) ==
  (Corner(mesh, t, 0, k) + Corner(mesh, t, 1, k) + Corner(mesh, t, 2, k)) \div 3

\* Morton code of triangle t: the 30-bit interleave of its centroid
\* quantised to 10 bits per axis relative to the bounds of all centroids
MortonOf(t) ==
  LET mn(k) == MinOf({CentroidOf(u, k) : u \in 0..(tris - 1)})
      mx(k) == MaxOf({CentroidOf(u, k) : u \in 0..(tris - 1)})
      q(k) == Quantize(CentroidOf(t, k), mn(k), mx(k) - mn(k))
  IN Interleave(q(0), q(1), q(2))

RangeTris(f) == {At(triOrder, i) : i \in f.start..(f.end - 1)}
\* the bucket of triangle t in the binning of frame f
BucketOf(f, t) ==
  BinOf(At(centroids, 3 * t + f.bn.axis), At(f.bn.cMn, f.bn.axis), At(f.bn.ext, f.bn.axis))
\* the triangles left and right of the boundary after bucket b
LeftSet(f, b) == {t \in RangeTris(f) : BucketOf(f, t) <= b}
RightSet(f, b) == {t \in RangeTris(f) : BucketOf(f, t) > b}
\* the boundaries with a non-empty left and a non-empty right side
ValidBoundaries(f) == {b \in 0..(BINS - 2) : LeftSet(f, b) # {} /\ RightSet(f, b) # {}}
\* PS * cost of boundary b, the sides bounded by the AABBs of their triangles
AabbCost(f, b) ==
  SurfaceArea(UnionMin(LeftSet(f, b)), UnionMax(LeftSet(f, b))) * Cardinality(LeftSet(f, b))
  + SurfaceArea(UnionMin(RightSet(f, b)), UnionMax(RightSet(f, b))) * Cardinality(RightSet(f, b))
AabbMinimisers(f) ==
  {b \in ValidBoundaries(f) : \A c \in ValidBoundaries(f) : AabbCost(f, b) <= AabbCost(f, c)}

\* C17: whenever some boundary of a node with more than leafCapacity
\* triangles has both sides non-empty, the builder splits the node at a
\* boundary of least cost SA(left)/SA(parent) * leftCount +
\* SA(right)/SA(parent) * rightCount among those boundaries, the sides
\* being bounded by the AABBs of the triangles binned into them: the left
\* child gets the triangles of the buckets up to that boundary.
C17_SahMinimal ==
  \A d \in 1..Len(stack) :
    LET f == stack[d]
    IN (f.pc \in {"left", "right", "join"} /\ ValidBoundaries(f) # {}) =>
         \E b \in AabbMinimisers(f) :
           {At(triOrder, i) : i \in f.start..(f.mid - 1)} = LeftSet(f, b)

\* all triangles of the mesh have one centroid
AllCoincide == \A t, u \in 0..(tris - 1) : SameCentroid(t, u)

\* C18: a node with more than leafCapacity triangles none of whose bucket
\* boundaries has both sides non-empty (as when all its centroids coincide)
\* is split by index at mid = start + floor(count / 2), triOrder is left as
\* it is and both halves are non-empty; T triangles with one centroid and
\* leafCapacity 1 give a tree of exactly 2T - 1 nodes over the identity
\* order.
C18_MedianFallback ==
  /\ [][(stack # <<>> /\ Top.pc = "choose" /\ ValidBoundaries(Top) = {}) =>
          /\ stack'[Len(stack)].pc = "left"
          /\ stack'[Len(stack)].mid = Top.start + ((Top.end - Top.start) \div 2)
          /\ Top.start < stack'[Len(stack)].mid
          /\ stack'[Len(stack)].mid < Top.end
          /\ triOrder' = triOrder]_vars
  /\ [](\A d \in 1..Len(stack) :
          (stack[d].pc = "choose" /\ \A t, u \in RangeTris(stack[d]) : SameCentroid(t, u)) =>
            ValidBoundaries(stack[d]) = {})
  /\ []((Built /\ leaf = 1 /\ AllCoincide) =>
          (Len(nodes) = 2 * tris - 1 /\ triOrder = Ident(tris)))

\* reached: the returned tree of three triangles of two shapes with one
\* centroid, leafCapacity 1: five nodes
C18_Witness ==
  /\ Built
  /\ leaf = 1
  /\ tris = 3
  /\ AllCoincide
  /\ \E t, u \in 0..2 : UnionMax({t}) # UnionMax({u})
  /\ Len(nodes) = 5
  /\ At(nodes, 0).left = 1
  /\ At(nodes, 1).right = -1

(* ====================== properties of the partition ==================== *)
\* the boundary the best-split loop takes for frame f
BestBinOf(f) == BestBin(f.ps, SurfaceArea(f.mn, f.mx))

\* the number of positions of [lo, hi) of the order o that hold triangle t
Occurrences(o, lo, hi, t) == Cardinality({i \in lo..(hi - 1) : At(o, i) = t})

\* C19: when a best boundary bestBin is taken for [start, end), every step
\* of the partition leaves the positions outside [start, end) and the
\* multiset inside as they are, and the partition ends with mid such that
\* the centroids of triOrder[start, mid) lie below splitPos, those of
\* triOrder[mid, end) at or above it, mid = start + leftCount[bestBin] and
\* start < mid < end.
C19_PartitionAtPlane ==
  /\ [][partitionStep =>
          /\ \A p \in 0..(tris - 1) :
               (p < Top.start \/ p >= Top.end) => At(triOrder', p) = At(triOrder, p)
          /\ \A t \in 0..(tris - 1) :
               Occurrences(triOrder', Top.start, Top.end, t)
                 = Occurrences(triOrder, Top.start, Top.end, t)]_vars
  /\ [][partitionEnd =>
          LET f == stack'[Len(stack)]
          IN /\ triOrder' = triOrder
             /\ \A i \in f.start..(f.mid - 1) :
                  LeftOfPlane(At(triOrder, i), f.bn.axis, f.splitPos16)
             /\ \A i \in f.mid..(f.end - 1) :
                  ~LeftOfPlane(At(triOrder, i), f.bn.axis, f.splitPos16)
             /\ f.mid = f.start + At(f.ps.leftCount, BestBinOf(f))
             /\ f.start < f.mid
             /\ f.mid < f.end]_vars

(* ======================= properties of the layout ====================== *)
\* the indices of the leaves of the node array, in increasing order
LeafIndices == SelectSeq([i \in 1..Len(nodes) |-> i - 1], LAMBDA i : At(nodes, i).right < 0)

\* C20: the returned nodes are in pre-order: an internal node i has
\* left = i + 1 and i + 1 < right < nodes.length, and every node but the
\* root is the child of exactly one node; the ranges of the leaves, taken
\* by increasing node index, start at 0, follow one another without gap or
\* overlap and end at T.
C20_PreOrderLayout ==
  Built =>
    /\ \A i \in 0..(Len(nodes) - 1) :
         At(nodes, i).right >= 0 =>
           /\ At(nodes, i).left = i + 1
           /\ i + 1 < At(nodes, i).right
           /\ At(nodes, i).right < Len(nodes)
    /\ \A c \in 1..(Len(nodes) - 1) :
         Cardinality({i \in 0..(Len(nodes) - 1) :
                        /\ At(nodes, i).right >= 0
                        /\ c \in {At(nodes, i).left, At(nodes, i).right}}) = 1
    /\ \A i \in 0..(Len(nodes) - 1) :
         At(nodes, i).right >= 0 => At(nodes, i).left # At(nodes, i).right
    /\ LET ls == LeafIndices
       IN /\ Len(ls) >= 1
          /\ At(nodes, ls[1]).left = 0
          /\ \A x \in 1..(Len(ls) - 1) :
               At(nodes, ls[x + 1]).left
                 = At(nodes, ls[x]).left - At(nodes, ls[x]).right
          /\ At(nodes, ls[Len(ls)]).left - At(nodes, ls[Len(ls)]).right = tris

\* reached: a returned tree of five nodes whose left subtree is internal,
\* built with swaps
C20_Witness ==
  /\ Built
  /\ tris = 3
  /\ Len(nodes) = 5
  /\ At(nodes, 0).right = 4
  /\ At(nodes, 1).right = 3
  /\ triOrder # Ident(tris)

(* ============ raytracer_temporal.js: the accumulating render loop ======== *)
\* Angles count units of 0.0005 rad: a mouse movement of a quarter pixel
\* times the sensitivity 0.002.  The camera position counts steps of
\* length speed along forward, which is a unit vector.  In these units the
\* products and quotients of render are exact in double arithmetic.

\* const MAX_FRAMES = 10000
MAX_FRAMES == 10000
\* const MOVE_THRESHOLD = 0.001, two units of 0.0005
MOVE_THRESHOLD == 2
\* const speed = 0.05, a hundred units of 0.0005
speed == 100
\* the largest yaw an event turns the camera to, in units
MaxTurn == 1

Abs(x) == IF x < 0 THEN -x ELSE x

\* keys.includes(k)
Includes(ks, k) == \E i \in 1..Len(ks) : ks[i] = k

\* movement = dp + da: the length of the camera's displacement since the
\* previous frame plus the two absolute angle differences
Movement(cam, prevCam, yw, prevYw, pt, prevPt) ==
  speed * Abs(cam - prevCam) + Abs(yw - prevYw) + Abs(pt - prevPt)

\* dynamicMax without the lower bound Math.max(1, .)
DynamicMaxUnclamped(movement) ==
  LET t == IF movement < MOVE_THRESHOLD THEN movement ELSE MOVE_THRESHOLD
  IN (MAX_FRAMES * (MOVE_THRESHOLD - t)) \div MOVE_THRESHOLD

\* tNorm = Math.min(movement / MOVE_THRESHOLD, 1.0);
\* dynamicMax = Math.max(1, Math.floor(MAX_FRAMES * (1.0 - tNorm)))
DynamicMax(movement) ==
  LET t == IF movement < MOVE_THRESHOLD THEN movement ELSE MOVE_THRESHOLD
      d == (MAX_FRAMES * (MOVE_THRESHOLD - t)) \div MOVE_THRESHOLD
  IN IF d < 1 THEN 1 ELSE d

\* the roles left as they are
PingPongKept(ping, pong) == <<ping, pong>>

\* [pingTex, pongTex] = [pongTex, pingTex]
PingPong(ping, pong) == <<pong, ping>>

\* the script has run and main() awaits the shader sources
InitTemporal ==
  /\ mesh = MeshOf(<< CHOOSE f \in Faces : f.v = <<0, 1, 2>> >>)
  /\ leaf = 1
  /\ phase = "loading"
  /\ triMin = <<>>
  /\ triMax = <<>>
  /\ centroids = <<>>
  /\ triOrder = <<>>
  /\ nodes = <<>>
  /\ stack = <<>>
  /\ flat = [triPos |-> <<>>, triNor |-> <<>>, bvhData |-> <<>>]
  /\ flatCalls = 0
  /\ chunks = NoChunks
  /\ bufs = NoBufs
  /\ code = <<>>
  /\ pipeline = Null
  /\ bindGroup = Null
  /\ keys = <<>>
  /\ yaw = 0
  /\ listening = FALSE
  /\ scale = <<1, 1, 1>>
  /\ cameraPos = 0
  /\ frameCount = 0
  /\ arr = <<>>
  /\ halves = <<>>
  /\ codes = <<>>
  /\ InitTemporalVars

\* what the temporal program leaves alone
buildVars == <<mesh, leaf, triMin, triMax, centroids, triOrder, nodes, stack,
               flat, flatCalls, packVars, scale, splitVars, mortonVars>>

\* one call of render(): the camera moves while "w" is held, the movement
\* metric caps frameIndex, the uniforms are set, the accumulation pass
\* samples pingTex and draws into pongTex, pongTex is drawn to the screen,
\* the roles swap, the previous camera is stored and the FPS counter is
\* advanced, or reset when half a second has passed
renderCall ==
  /\ IF Includes(keys, "w")
     THEN cameraPos < MaxMove /\ cameraPos' = cameraPos + 1
     ELSE cameraPos' = cameraPos
  /\ \E dynamicMax \in {DynamicMax(Movement(cameraPos', prevCameraPos,
                                             yaw, prevYaw, pitch, prevPitch))} :
       /\ frameIndex' = IF frameIndex + 1 < dynamicMax - 1
                        THEN frameIndex + 1 ELSE dynamicMax - 1
       /\ uniforms' = [u_frameIndex |-> frameIndex', u_maxFrames |-> dynamicMax]
  /\ accumDraw' = [sampled |-> pingTex, target |-> pongTex]
  /\ pingTex' = PingPong(pingTex, pongTex)[1]
  /\ pongTex' = PingPong(pingTex, pongTex)[2]
  /\ prevCameraPos' = cameraPos'
  /\ prevYaw' = yaw
  /\ prevPitch' = pitch
  /\ \E second \in BOOLEAN :
       IF second THEN frameCount' = 0
       ELSE frameCount < MaxFrames /\ frameCount' = frameCount + 1
  /\ UNCHANGED <<buildVars, keys, yaw, pitch, listening>>

\* main(): the shaders are loaded, the program is linked, and
\* startRenderLoop calls render() for the first time
startRenderLoop ==
  /\ phase = "loading"
  /\ phase' = "rendering"
  /\ renderCall

\* main(): loadShaders, createShader or createProgram throws
mainRejected ==
  /\ phase = "loading"
  /\ phase' = "failed"
  /\ UNCHANGED <<buildVars, inputVars, temporalVars>>

\* render() as the callback of requestAnimationFrame
render ==
  /\ phase = "rendering"
  /\ phase' = phase
  /\ renderCall

\* the keydown listener of raytracer_temporal.js
keydownTemporal ==
  /\ \E k \in Keys : keys' = IF Includes(keys, k) THEN keys ELSE Append(keys, k)
  /\ UNCHANGED <<buildVars, phase, yaw, listening, cameraPos, frameCount, temporalVars>>

\* the keyup listener of raytracer_temporal.js
keyupTemporal ==
  /\ \E k \in Keys : keys' = SelectSeq(keys, LAMBDA x : x # k)
  /\ UNCHANGED <<buildVars, phase, yaw, listening, cameraPos, frameCount, temporalVars>>

\* the pointerlockchange listener of raytracer_temporal.js
pointerlockchangeTemporal ==
  /\ \E locked \in BOOLEAN : listening' = locked
  /\ UNCHANGED <<buildVars, phase, keys, yaw, cameraPos, frameCount, temporalVars>>

\* onMouseMove(e) of raytracer_temporal.js with e.movementX a quarter pixel
\* to the left or to the right and e.movementY = 0: pitch keeps its value,
\* which the clamp to (-PI/2 + 0.01, PI/2 - 0.01) leaves as it is
onMouseMoveTemporal ==
  /\ listening
  /\ \E movementX \in {-1, 1} :
       /\ yaw + movementX \in 0..MaxTurn
       /\ yaw' = yaw + movementX
  /\ pitch' = pitch
  /\ UNCHANGED <<buildVars, phase, keys, listening, cameraPos, frameCount,
                 frameIndex, prevCameraPos, prevYaw, prevPitch, pingTex, pongTex,
                 uniforms, accumDraw>>

NextTemporal ==
  \/ startRenderLoop
  \/ mainRejected
  \/ render
  \/ keydownTemporal
  \/ keyupTemporal
  \/ pointerlockchangeTemporal
  \/ onMouseMoveTemporal

SpecTemporal == InitTemporal /\ [][NextTemporal]_vars

(* ================= properties of the accumulating loop ================= *)
\* a frame: the first call of render() or a later one
RenderedFrame == startRenderLoop \/ render

\* the movement metric of the frame that leads to the next state
FrameMovement == Movement(cameraPos', prevCameraPos, yaw, prevYaw, pitch, prevPitch)

\* C21: after every frame 0 <= frameIndex <= dynamicMax - 1 <= MAX_FRAMES - 1
\* for the dynamicMax of that frame, which is at least 1, and u_frameIndex
\* is frameIndex; before the first frame frameIndex is 0.  A frame whose
\* movement metric is at least MOVE_THRESHOLD leaves frameIndex = 0, and a
\* frame without movement adds 1 to frameIndex unless it is MAX_FRAMES - 1
\* already, where it stays.
C21_FrameIndexCapped ==
  /\ [](IF uniforms = Null THEN frameIndex = 0
        ELSE /\ uniforms.u_maxFrames >= 1
             /\ 0 <= frameIndex
             /\ frameIndex <= uniforms.u_maxFrames - 1
             /\ uniforms.u_maxFrames - 1 <= MAX_FRAMES - 1
             /\ uniforms.u_frameIndex = frameIndex)
  /\ [][RenderedFrame =>
          /\ FrameMovement >= MOVE_THRESHOLD => frameIndex' = 0
          /\ FrameMovement = 0 =>
               /\ uniforms'.u_maxFrames = MAX_FRAMES
               /\ frameIndex' = IF frameIndex < MAX_FRAMES - 1
                                THEN frameIndex + 1 ELSE MAX_FRAMES - 1]_vars

\* reached: the camera has moved and turned, and later frames without
\* movement have brought frameIndex to MAX_FRAMES - 1
C21_Witness ==
  /\ phase = "rendering"
  /\ cameraPos = MaxMove
  /\ yaw = MaxTurn
  /\ frameIndex = MAX_FRAMES - 1
  /\ uniforms # Null
  /\ uniforms.u_maxFrames = MAX_FRAMES

\* C22: pingTex and pongTex are always the two distinct textures texA and
\* texB.  Every frame samples pingTex in the accumulation pass and draws into
\* pongTex, which is another texture, swaps the two roles, and samples the
\* texture the frame before it drew into; nothing but a frame changes the
\* roles.
C22_PingPong ==
  /\ [](/\ texA # texB
        /\ {pingTex, pongTex} = {texA, texB}
        /\ accumDraw # Null => accumDraw.sampled # accumDraw.target)
  /\ [][RenderedFrame =>
          /\ accumDraw'.sampled = pingTex
          /\ accumDraw'.target = pongTex
          /\ pingTex' = pongTex
          /\ pongTex' = pingTex
          /\ accumDraw # Null => accumDraw'.sampled = accumDraw.target]_vars
  /\ [][~RenderedFrame => UNCHANGED <<pingTex, pongTex, accumDraw>>]_vars

\* reached: a third frame has sampled texA again, has drawn into texB and
\* has made texB the texture of the previous frame
C22_Witness ==
  /\ phase = "rendering"
  /\ frameIndex = 2
  /\ accumDraw # Null
  /\ accumDraw.sampled = texA
  /\ accumDraw.target = texB
  /\ pingTex = texB
  /\ pongTex = texA

====
